---- MODULE Spec2Model ----
(***************************************************************************)
(* A model of the relay dashboard's App component (src/src/App.js): the    *)
(* React state it keeps, the effect that opens the WebSocket and issues    *)
(* the NIP-11 fetch, the four socket handlers, the fetch continuation and  *)
(* the effect's cleanup.  The effect may run again after its cleanup with  *)
(* the component's state kept (React re-runs effects of a live component), *)
(* and a socket the cleanup left alone keeps its handlers.                 *)
(***************************************************************************)
EXTENDS Integers, Sequences, FiniteSets, TLC

VARIABLES
    events,                     \* useState([])      App.js:101
    isConnected,                \* useState(false)   App.js:103
    hasFetchedAllEvents,        \* useState(false)   App.js:105
    relayInformationDocument,   \* useState({})      App.js:107
    sockets,                    \* one WebSocket per run of the effect
    fetchPending,               \* fetch promises issued and not yet settled
    fetchSettled,               \* fetch promises settled
    mounted,                    \* the effect has run and its cleanup has not
    crashed,                    \* a state updater threw while rendering
    recv,                       \* history: events of the EVENT frames handled since the log was last reset
    last,                       \* history: the handler that ran last
    kindIn,                     \* classification: the kind handed to classify
    descOut                     \* classification: the descriptor it returned

vars == <<events, isConnected, hasFetchedAllEvents, relayInformationDocument,
          sockets, fetchPending, fetchSettled, mounted, crashed, recv, last, kindIn, descOut>>

appVars == <<events, isConnected, hasFetchedAllEvents, relayInformationDocument,
             sockets, fetchPending, fetchSettled, mounted, crashed, recv, last>>

(***************************************************************************)
(* Bounds of the model.                                                    *)
(***************************************************************************)
\* Runs of the effect.
MaxMounts == 2

\* Entries the Event Log may hold.
MaxEvents == 3

\* classify is applied to -MaxKind..MaxKind and to the kinds around 22242.
MaxKind == 60

\* { limit: 1000 }
ReqLimit == 1000

\* Math.random().toString(36)... twice: an id no earlier run of the effect drew.
subscriptionID(run) == "sub" \o ToString(run)

(***************************************************************************)
(* The event-kind table.  A JS property that is absent reads as undefined: *)
(* showContent absent is FALSE here, contentKey absent is "undefined".     *)
(* Icons are named by their first code point.                              *)
(***************************************************************************)
Desc(icon, name, showContent, contentKey) ==
    [icon |-> icon, name |-> name, showContent |-> showContent, contentKey |-> contentKey]

supportedEventKindsDrop44 ==
    (0 :> Desc("U+1F4DD", "Profile Update", FALSE, "undefined")) @@
    (1 :> Desc("U+1F4AD", "Post", TRUE, "undefined")) @@
    (2 :> Desc("U+1F4F6", "Relay Update", FALSE, "undefined")) @@
    (3 :> Desc("U+1F91D", "Following Update", FALSE, "undefined")) @@
    (4 :> Desc("U+1F50F", "Encrypted DM", FALSE, "undefined")) @@
    (5 :> Desc("U+1F5D1", "Deleted Action", FALSE, "undefined")) @@
    (6 :> Desc("U+1F501", "Repost", FALSE, "undefined")) @@
    (7 :> Desc("U+1F919", "Reaction", FALSE, "undefined")) @@
    (40 :> Desc("U+1F9D9", "Channel Creation", TRUE, "name")) @@
    (41 :> Desc("U+1FA84", "Channel Update", TRUE, "name")) @@
    (42 :> Desc("U+1F4E2", "Channel Message", TRUE, "undefined")) @@
    (43 :> Desc("U+1F648", "Hid Message", FALSE, "undefined")) @@
    (22242 :> Desc("U+1F513", "Authenticated Relay", FALSE, "undefined"))

supportedEventKinds ==
    (0 :> Desc("U+1F4DD", "Profile Update", FALSE, "undefined")) @@
    (1 :> Desc("U+1F4AD", "Post", TRUE, "undefined")) @@
    (2 :> Desc("U+1F4F6", "Relay Update", FALSE, "undefined")) @@
    (3 :> Desc("U+1F91D", "Following Update", FALSE, "undefined")) @@
    (4 :> Desc("U+1F50F", "Encrypted DM", FALSE, "undefined")) @@
    (5 :> Desc("U+1F5D1", "Deleted Action", FALSE, "undefined")) @@
    (6 :> Desc("U+1F501", "Repost", FALSE, "undefined")) @@
    (7 :> Desc("U+1F919", "Reaction", FALSE, "undefined")) @@
    (40 :> Desc("U+1F9D9", "Channel Creation", TRUE, "name")) @@
    (41 :> Desc("U+1FA84", "Channel Update", TRUE, "name")) @@
    (42 :> Desc("U+1F4E2", "Channel Message", TRUE, "undefined")) @@
    (43 :> Desc("U+1F648", "Hid Message", FALSE, "undefined")) @@
    (44 :> Desc("U+1F64A", "Muted User", FALSE, "undefined")) @@
    (22242 :> Desc("U+1F513", "Authenticated Relay", FALSE, "undefined"))

supportedEventKindsOther == Desc("U+1F6E0", "Other Action", FALSE, "undefined")

\* The lookup the presentation components make on the table they are handed.
classify(kind) ==
    IF kind \in DOMAIN supportedEventKinds
    THEN supportedEventKinds[kind]
    ELSE supportedEventKindsOther

(***************************************************************************)
(* Inbound frames: the texts a relay may send, and JSON.parse on each.     *)
(* A parsed value is a record: its JS type, its string elements and its    *)
(* object elements, which in every frame here follow the strings.          *)
(* ok = FALSE is the SyntaxError JSON.parse throws.                        *)
(***************************************************************************)
EventA == [id |-> "a", kind |-> 1, created_at |-> 100, content |-> "hi", sig |-> "s1"]
EventB == [id |-> "b", kind |-> 0, created_at |-> 101, content |-> "{}", sig |-> "s2"]

TextEventA == "[\"EVENT\",\"sub1\",{\"id\":\"a\",\"kind\":1,\"created_at\":100,\"content\":\"hi\",\"sig\":\"s1\"}]"
TextEventB == "[\"EVENT\",\"sub1\",{\"id\":\"b\",\"kind\":0,\"created_at\":101,\"content\":\"{}\",\"sig\":\"s2\"}]"
TextEventNoPayload == "[\"EVENT\",\"sub1\"]"
TextEose == "[\"EOSE\",\"sub1\"]"
TextNotice == "[\"NOTICE\",\"rate limited\"]"
TextEmptyArray == "[]"
TextNull == "null"
TextNumber == "5"
TextGarbage == "not json"

EventTexts == {TextEventA, TextEventB}

Frames ==
    EventTexts \cup
    {TextEose, TextEventNoPayload, TextNotice, TextEmptyArray, TextNull,
     TextNumber, TextGarbage}

Value(type, strs, objs) == [ok |-> TRUE, type |-> type, strs |-> strs, objs |-> objs]

JSONparse(text) ==
    CASE text = TextEventA -> Value("array", <<"EVENT", "sub1">>, <<EventA>>)
      [] text = TextEventB -> Value("array", <<"EVENT", "sub1">>, <<EventB>>)
      [] text = TextEventNoPayload -> Value("array", <<"EVENT", "sub1">>, <<>>)
      [] text = TextEose -> Value("array", <<"EOSE", "sub1">>, <<>>)
      [] text = TextNotice -> Value("array", <<"NOTICE", "rate limited">>, <<>>)
      [] text = TextEmptyArray -> Value("array", <<>>, <<>>)
      [] text = TextNull -> Value("null", <<>>, <<>>)
      [] text = TextNumber -> Value("number", <<>>, <<>>)
      [] OTHER -> [ok |-> FALSE, type |-> "undefined", strs |-> <<>>, objs |-> <<>>]

\* !data.length : a number has no length property (undefined).
NoLength(data) ==
    \/ data.type = "number"
    \/ Len(data.strs) + Len(data.objs) = 0

\* data[0] === tag
TagIs(data, tag) == Len(data.strs) >= 1 /\ data.strs[1] = tag

\* data[2] is undefined unless the frame has a third element.
HasPayload(data) == Len(data.strs) = 2 /\ Len(data.objs) >= 1

\* const { id, kind, created_at, content } = data[2]
Extract(payload) ==
    [id |-> payload.id, kind |-> payload.kind,
     created_at |-> payload.created_at, content |-> payload.content]

PrependAtEnd(entry, prevEvents) == prevEvents \o <<entry>>

\* [{ id, kind, created_at, content }, ...prevEvents]
Prepend(entry, prevEvents) == <<entry>> \o prevEvents

MarkCompleteToggle(prev) == ~prev

\* setHasFetchedAllEvents(true)
MarkComplete(prev) == TRUE

Outcome(ev, fetched, fault, crash) ==
    [events |-> ev, hasFetchedAllEvents |-> fetched, fault |-> fault, crash |-> crash]

onmessageNoGuard(text, ev, fetched) ==
    LET data == JSONparse(text) IN
    IF ~data.ok THEN Outcome(ev, fetched, "SyntaxError", FALSE)
    ELSE IF data.type = "null" THEN Outcome(ev, fetched, "TypeError", FALSE)
    ELSE IF TagIs(data, "EVENT")
         THEN IF HasPayload(data)
              THEN Outcome(Prepend(Extract(data.objs[1]), ev), fetched, "none", FALSE)
              ELSE Outcome(ev, fetched, "TypeError", TRUE)
    ELSE Outcome(ev, MarkComplete(fetched), "none", FALSE)

(***************************************************************************)
(* socket.onmessage together with the state update it schedules: the state *)
(* after the frame, the exception raised (if any) and whether it was       *)
(* raised by the updater, that is while React renders.                     *)
(***************************************************************************)
onmessage(text, ev, fetched) ==
    LET data == JSONparse(text) IN
    IF ~data.ok THEN Outcome(ev, fetched, "SyntaxError", FALSE)
    ELSE IF data.type = "null" THEN Outcome(ev, fetched, "TypeError", FALSE)
    ELSE IF NoLength(data) THEN Outcome(ev, fetched, "none", FALSE)
    ELSE IF TagIs(data, "EOSE") THEN Outcome(ev, MarkComplete(fetched), "none", FALSE)
    ELSE IF TagIs(data, "EVENT")
         THEN IF HasPayload(data)
              THEN Outcome(Prepend(Extract(data.objs[1]), ev), fetched, "none", FALSE)
              ELSE Outcome(ev, fetched, "TypeError", TRUE)
    ELSE Outcome(ev, fetched, "none", FALSE)

(***************************************************************************)
(* Outbound frames.                                                        *)
(***************************************************************************)
ReqFrameLimit100(id) == [tag |-> "REQ", sub |-> id, limit |-> 100]

\* JSON.stringify(["REQ", subscriptionID, { limit: 1000 }])
ReqFrame(id) == [tag |-> "REQ", sub |-> id, limit |-> ReqLimit]

\* JSON.stringify(["CLOSE", subscriptionID])
CloseFrame(id) == [tag |-> "CLOSE", sub |-> id]

(***************************************************************************)
(* The NIP-11 fetch.  A document is a set of <<key, value>> pairs.         *)
(***************************************************************************)
EmptyDoc == {}

BodyVersion == "{\"version\":\"0.8.1\"}"
BodyHtml == "<html>"

Bodies == {BodyVersion, BodyHtml}

Statuses == {200, 500}

\* A response, or the rejection of the fetch promise (status 0).
Responses == [status : Statuses, body : Bodies] \cup {[status |-> 0, body |-> BodyHtml]}

NetworkError(resp) == resp.status = 0

\* response.ok
ResponseOk(resp) == resp.status >= 200 /\ resp.status <= 299

BodyParses(body) == body # BodyHtml

\* response.json()
ResponseJson(body) ==
    CASE body = BodyVersion -> {<<"version", "0.8.1">>}
      [] OTHER -> EmptyDoc

FetchThenNoOkTest(resp, doc) ==
    IF ~NetworkError(resp) /\ BodyParses(resp.body)
    THEN ResponseJson(resp.body)
    ELSE doc

\* .then(async (response) => { if (response.ok) { ... setRelayInformationDocument } })
FetchThen(resp, doc) ==
    IF ~NetworkError(resp) /\ ResponseOk(resp) /\ BodyParses(resp.body)
    THEN ResponseJson(resp.body)
    ELSE doc

\* relayInformationDocument.version ? ` ${relayInformationDocument.version}` : ""
FooterSuffix(doc) ==
    IF \E p \in doc : p[1] = "version" /\ p[2] # ""
    THEN " " \o (CHOOSE v \in {p[2] : p \in {q \in doc : q[1] = "version"}} : TRUE)
    ELSE ""

(***************************************************************************)
(* The effect's cleanup, applied to the socket of the run it belongs to.   *)
(* socket.close() on an OPEN socket starts the closing handshake.          *)
(***************************************************************************)
Socket(rs, sub, sent) == [readyState |-> rs, subscriptionID |-> sub, sent |-> sent]

cleanup(socket) ==
    IF socket.readyState = "OPEN"
    THEN [socket EXCEPT !.sent = Append(@, CloseFrame(socket.subscriptionID)),
                        !.readyState = "CLOSING"]
    ELSE socket

\* History: the step taken last.  arg is the frame text of a message, the
\* readyState a cleanup found, the body of a fetch response; outcome is the
\* exception a handler raised or the class of a fetch response.
Last(op, arg, outcome) == [op |-> op, arg |-> arg, outcome |-> outcome]

Init ==
    /\ events = <<>>
    /\ isConnected = FALSE
    /\ hasFetchedAllEvents = FALSE
    /\ relayInformationDocument = EmptyDoc
    /\ sockets = <<>>
    /\ fetchPending = 0
    /\ fetchSettled = 0
    /\ mounted = FALSE
    /\ crashed = FALSE
    /\ recv = <<>>
    /\ last = Last("init", "-", "none")
    /\ kindIn = 0
    /\ descOut = supportedEventKindsOther

\* The effect body: new WebSocket, a fresh subscription id, the handlers, the fetch.
effect(socks) == Append(socks, Socket("CONNECTING", subscriptionID(Len(socks) + 1), <<>>))

\* The component mounts: the effect runs for the first time.
Mount ==
    /\ ~mounted
    /\ sockets = <<>>
    /\ sockets' = effect(sockets)
    /\ fetchPending' = fetchPending + 1
    /\ mounted' = TRUE
    /\ last' = Last("mount", "-", "none")
    /\ UNCHANGED <<events, isConnected, hasFetchedAllEvents, relayInformationDocument,
                   fetchSettled, crashed, recv, kindIn, descOut>>

\* React runs the effect of the live component again: the cleanup of the
\* previous run, then the effect body, in one commit and with the state kept.
Rerun ==
    /\ mounted
    /\ Len(sockets) < MaxMounts
    /\ LET s == Len(sockets) IN
          /\ sockets' = effect([sockets EXCEPT ![s] = cleanup(@)])
          /\ last' = Last("rerun", sockets[s].readyState, "none")
    /\ fetchPending' = fetchPending + 1
    /\ UNCHANGED <<events, isConnected, hasFetchedAllEvents, relayInformationDocument,
                   fetchSettled, mounted, crashed, recv, kindIn, descOut>>

\* The instance is gone and its state with it: the state variables return to
\* the values they have when there is no instance.
Discarded ==
    /\ events' = <<>>
    /\ isConnected' = FALSE
    /\ hasFetchedAllEvents' = FALSE
    /\ relayInformationDocument' = EmptyDoc
    /\ recv' = <<>>
    /\ mounted' = FALSE

\* The component unmounts: the cleanup of the last run.  The sockets and the
\* fetches live on, and React drops the state updates their callbacks make.
Cleanup ==
    /\ mounted
    /\ LET s == Len(sockets) IN
          /\ sockets' = [sockets EXCEPT ![s] = cleanup(@)]
          /\ last' = Last("cleanup", sockets[s].readyState, "none")
    /\ Discarded
    /\ UNCHANGED <<fetchPending, fetchSettled, crashed, kindIn, descOut>>

\* setEvents([])
onopen(ev) == <<>>

OnOpen(s) ==
    /\ sockets[s].readyState = "CONNECTING"
    /\ sockets' = [sockets EXCEPT ![s].readyState = "OPEN",
                                  ![s].sent = Append(@, ReqFrame(sockets[s].subscriptionID))]
    /\ last' = Last("open", "-", "none")
    /\ IF mounted
       THEN /\ isConnected' = TRUE
            /\ events' = onopen(events)
            /\ recv' = <<>>
       ELSE UNCHANGED <<isConnected, events, recv>>
    /\ UNCHANGED <<hasFetchedAllEvents, relayInformationDocument, fetchPending,
                   fetchSettled, mounted, crashed, kindIn, descOut>>

\* A message event is dispatched only while the socket is OPEN.  An exception
\* of the handler is reported and the socket lives on; an exception of the
\* updater is raised while React renders, which unmounts the tree and so runs
\* the cleanup of the live effect.  With no instance the updater never runs.
OnMessage(s, text) ==
    /\ sockets[s].readyState = "OPEN"
    /\ text \in EventTexts => Len(events) < MaxEvents
    /\ LET out == onmessage(text, events, hasFetchedAllEvents) IN
          /\ last' = Last("message", text,
                          IF out.crash /\ ~mounted THEN "none" ELSE out.fault)
          /\ IF mounted /\ out.crash
             THEN /\ crashed' = TRUE
                  /\ sockets' = [sockets EXCEPT ![Len(sockets)] = cleanup(@)]
                  /\ Discarded
             ELSE /\ IF mounted
                     THEN /\ events' = out.events
                          /\ hasFetchedAllEvents' = out.hasFetchedAllEvents
                          /\ recv' = IF text \in EventTexts
                                     THEN Append(recv, Extract(JSONparse(text).objs[1]))
                                     ELSE recv
                     ELSE UNCHANGED <<events, hasFetchedAllEvents, recv>>
                  /\ UNCHANGED <<isConnected, relayInformationDocument, sockets,
                                 mounted, crashed>>
    /\ UNCHANGED <<fetchPending, fetchSettled, kindIn, descOut>>

\* socket.onerror : setIsConnected(false)
onerror(connected) == FALSE

\* socket.onclose : setIsConnected(false)
onclose(connected) == FALSE

\* The connection fails (while connecting, open or closing): the socket
\* becomes CLOSED and the error event and the close event fire in one task.
OnError(s) ==
    /\ sockets[s].readyState # "CLOSED"
    /\ sockets' = [sockets EXCEPT ![s].readyState = "CLOSED"]
    /\ last' = Last("error", "-", "none")
    /\ isConnected' = IF mounted THEN onclose(onerror(isConnected)) ELSE isConnected
    /\ UNCHANGED <<events, hasFetchedAllEvents, relayInformationDocument, fetchPending,
                   fetchSettled, mounted, crashed, recv, kindIn, descOut>>

\* The connection ends without an error: by the relay, or completing close().
OnClose(s) ==
    /\ sockets[s].readyState \in {"OPEN", "CLOSING"}
    /\ sockets' = [sockets EXCEPT ![s].readyState = "CLOSED"]
    /\ last' = Last("close", "-", "none")
    /\ isConnected' = IF mounted THEN onclose(isConnected) ELSE isConnected
    /\ UNCHANGED <<events, hasFetchedAllEvents, relayInformationDocument, fetchPending,
                   fetchSettled, mounted, crashed, recv, kindIn, descOut>>

ResponseClass(resp) ==
    IF NetworkError(resp) THEN "network"
    ELSE IF ~ResponseOk(resp) THEN "http"
    ELSE IF BodyParses(resp.body) THEN "ok" ELSE "unparseable"

\* A fetch promise settles; a rejection has no handler.
FetchSettle(resp) ==
    /\ fetchPending > 0
    /\ fetchPending' = fetchPending - 1
    /\ fetchSettled' = fetchSettled + 1
    /\ last' = Last("fetch", resp.body, ResponseClass(resp))
    /\ relayInformationDocument' =
          IF mounted THEN FetchThen(resp, relayInformationDocument)
          ELSE relayInformationDocument
    /\ UNCHANGED <<events, isConnected, hasFetchedAllEvents, sockets, mounted,
                   crashed, recv, kindIn, descOut>>

\* The events the environment delivers: on any socket, any frame, any response.
Open == \E s \in 1..Len(sockets) : OnOpen(s)

Message == \E s \in 1..Len(sockets) : \E text \in Frames : OnMessage(s, text)

Error == \E s \in 1..Len(sockets) : OnError(s)

Close == \E s \in 1..Len(sockets) : OnClose(s)

Settle == \E resp \in Responses : FetchSettle(resp)

Next ==
    \/ Mount
    \/ Rerun
    \/ Cleanup
    \/ Open
    \/ Message
    \/ Error
    \/ Close
    \/ Settle

Spec == Init /\ [][Next]_vars

(***************************************************************************)
(* Classification on its own: a kind is drawn, classify is applied.        *)
(***************************************************************************)
Kinds == (-MaxKind..MaxKind) \cup {22241, 22242, 22243}

NotYet == Desc("-", "-", FALSE, "-")

InitClassify ==
    /\ events = <<>>
    /\ isConnected = FALSE
    /\ hasFetchedAllEvents = FALSE
    /\ relayInformationDocument = EmptyDoc
    /\ sockets = <<>>
    /\ fetchPending = 0
    /\ fetchSettled = 0
    /\ mounted = FALSE
    /\ crashed = FALSE
    /\ recv = <<>>
    /\ last = Last("init", "-", "none")
    /\ kindIn \in Kinds
    /\ descOut = NotYet

Classify ==
    /\ descOut = NotYet
    /\ descOut' = classify(kindIn)
    /\ UNCHANGED <<kindIn, appVars>>

NextClassify == Classify

SpecClassify == InitClassify /\ [][NextClassify]_vars

(***************************************************************************)
(* Properties.                                                             *)
(***************************************************************************)
Reverse(s) == [i \in 1..Len(s) |-> s[Len(s) + 1 - i]]

EntryA == [id |-> "a", kind |-> 1, created_at |-> 100, content |-> "hi"]
EntryB == [id |-> "b", kind |-> 0, created_at |-> 101, content |-> "{}"]

\* C1: the Event Log is the sequence of the events of the EVENT frames handled
\* since the last reset, reversed: newest first, one entry per frame, none
\* dropped, reordered or merged, frames with the same id included.
C1_LogIsReversedArrivals == mounted => events = Reverse(recv)

\* C1 witness: the frames a, b, EOSE of the scenario have been handled.
C1_Witness ==
    /\ mounted
    /\ recv = <<EntryA, EntryB>>
    /\ events = <<EntryB, EntryA>>
    /\ last = Last("message", TextEose, "none")
    /\ hasFetchedAllEvents

\* C2 (as claimed): right after an open event is handled the Event Log is empty
\* and hasFetchedAllEvents is false.
C2_OpenResetsBoth ==
    (mounted /\ last.op = "open") => (events = <<>> /\ hasFetchedAllEvents = FALSE)

\* C3 (as claimed): a teardown on an open socket leaves REQ, CLOSE with the
\* socket's own id as the frames sent and the socket closing; a teardown on a
\* socket that is not open sends no CLOSE frame and still closes the socket.
C3_TeardownCloses ==
    last.op \in {"cleanup", "rerun"} =>
        LET s == IF last.op = "cleanup" THEN Len(sockets) ELSE Len(sockets) - 1
            id == sockets[s].subscriptionID
        IN  /\ sockets[s].readyState \in {"CLOSING", "CLOSED"}
            /\ IF last.arg = "OPEN"
               THEN sockets[s].sent = <<[tag |-> "REQ", sub |-> id, limit |-> 1000],
                                        [tag |-> "CLOSE", sub |-> id]>>
               ELSE \A i \in 1..Len(sockets[s].sent) : sockets[s].sent[i].tag # "CLOSE"

\* C4: an EOSE frame sets hasFetchedAllEvents and leaves the Event Log alone; a
\* further EOSE frame changes nothing; and while the component is mounted the
\* flag never goes back to false, so it turns true at most once.
C4_EoseMarksCompleteOnce ==
    [][ /\ (mounted /\ last'.op = "message" /\ last'.arg = TextEose) =>
              /\ hasFetchedAllEvents' = TRUE
              /\ events' = events
              /\ hasFetchedAllEvents =>
                    UNCHANGED <<events, isConnected, hasFetchedAllEvents,
                                relayInformationDocument, sockets, mounted>>
        /\ (mounted' /\ hasFetchedAllEvents) => hasFetchedAllEvents'
      ]_vars

\* C4 witness: an EOSE frame has just been handled, with events in the log.
C4_Witness ==
    /\ mounted
    /\ last = Last("message", TextEose, "none")
    /\ hasFetchedAllEvents
    /\ Len(events) = 2

\* C5 (as claimed): the message handler and the update it schedules complete
\* without raising, whatever the frame.
C5_NoFaultEscapes ==
    last.op = "message" => (last.outcome = "none" /\ ~crashed)

\* C6: handling the frame [] changes neither the Event Log nor
\* hasFetchedAllEvents nor isConnected, and sends nothing.
C6_EmptyArrayDropped ==
    [][ (last'.op = "message" /\ last'.arg = TextEmptyArray) =>
            /\ last'.outcome = "none"
            /\ UNCHANGED <<events, hasFetchedAllEvents, isConnected, sockets, mounted>>
      ]_vars

\* C6 witness: [] has just been handled in a state with events, the flag set
\* and the connection up.
C6_Witness ==
    /\ mounted
    /\ last = Last("message", TextEmptyArray, "none")
    /\ events # <<>>
    /\ hasFetchedAllEvents
    /\ isConnected

\* C7 (as claimed): isConnected is false initially, true after an open, false
\* after an error or a close, untouched by a frame, and false for as long as
\* the component stays mounted with the connection of its effect closed.
C7_ConnectedFollowsSocket ==
    [][ /\ last.op = "init" => ~isConnected
        /\ (mounted' /\ last'.op = "open") => isConnected'
        /\ last'.op \in {"error", "close"} => ~isConnected'
        /\ (mounted' /\ last'.op = "message") => isConnected' = isConnected
        /\ (/\ mounted /\ mounted'
            /\ Len(sockets') = Len(sockets)
            /\ sockets[Len(sockets)].readyState = "CLOSED"
            /\ ~isConnected) => ~isConnected'
      ]_vars

C9_FetchWritesOnlyRelayInfo ==
    [][ /\ fetchPending' + fetchSettled' = Len(sockets')
        /\ last'.op = "fetch" =>
              /\ UNCHANGED <<events, hasFetchedAllEvents, isConnected, sockets, mounted>>
              /\ (mounted /\ last'.outcome = "ok" /\ last'.arg = BodyVersion) =>
                    /\ relayInformationDocument' = {<<"version", "0.8.1">>}
                    /\ FooterSuffix(relayInformationDocument') = " 0.8.1"
              /\ last'.outcome \in {"http", "network"} =>
                    /\ relayInformationDocument' = relayInformationDocument
                    /\ relayInformationDocument = EmptyDoc =>
                          FooterSuffix(relayInformationDocument') = ""
      ]_vars

\* C9 witness: an HTTP 500 has just come in while the connection is up and
\* events are in the log; RelayInfo is still empty.
C9_Witness ==
    /\ mounted
    /\ last = Last("fetch", BodyVersion, "http")
    /\ relayInformationDocument = EmptyDoc
    /\ isConnected
    /\ events # <<>>

DocumentedKinds == {0, 1, 2, 3, 4, 5, 6, 7, 40, 41, 42, 43, 44, 22242}

\* C10: classify returns a descriptor for every integer kind: the generic
\* `other` descriptor outside the 14 documented kinds, and for each of the 14
\* an entry of its own, which is not the generic one.
C10_ClassifyTotal ==
    descOut # NotYet =>
        /\ Cardinality(DocumentedKinds) = 14
        /\ descOut \in [icon : STRING, name : STRING, showContent : BOOLEAN, contentKey : STRING]
        /\ kindIn \notin DocumentedKinds =>
              descOut = [icon |-> "U+1F6E0", name |-> "Other Action",
                         showContent |-> FALSE, contentKey |-> "undefined"]
        /\ kindIn \in DocumentedKinds =>
              /\ descOut.name # "Other Action"
              /\ \A k \in DocumentedKinds \ {kindIn} : classify(k) # descOut

\* C10 witness: a negative kind has been classified as `other`.
C10_Witness ==
    /\ kindIn = -1
    /\ descOut = supportedEventKindsOther

====
